---- MODULE Spec2Model ----
(***************************************************************************)
(* Model of easier_apis/core.py: the expiring LRU cache (LRUCache) and the *)
(* request layer in front of it (API.fetch, API.send,                      *)
(* API.invalidate_cache, API.add_middleware, API._apply_middleware), the  *)
(* calls made one after another and, in SpecThreads, by callers running at *)
(* once with each OrderedDict operation as one step.                       *)
(*                                                                         *)
(* Python values are represented as follows.                               *)
(*   - an optional value is a set: {} is None, {x} is the value x;         *)
(*   - a payload (a dict) is the set of its field names, so {} is the      *)
(*     empty dict, the only falsy payload;                                 *)
(*   - the OrderedDict is a sequence of entries, least recently used       *)
(*     first;                                                              *)
(*   - time.time() is the integer clock `now`, which only moves forward.   *)
(***************************************************************************)
EXTENDS Integers, Sequences, FiniteSets, TLC

\* ---------------------------------------------------------------- bounds
MaxTime == 3
MaxMiddleware == 1
MaxPipeline == 2
MaxCalls == 3

\* ---------------------------------------------------------------- inputs
\* paths given to API.fetch, API.send and API.invalidate_cache
Paths == {"", "/a"}
\* cache_key = f"GET:{path}"
CacheKey(path) == "GET:" \o path
\* keys given to LRUCache.get and LRUCache.put when the cache is used directly
DirectKeys == {CacheKey(p) : p \in Paths \cup {"/b"}}
\* payloads the transport answers with, and payloads callers pass
Responses == {{}, {"name"}}
TTLs == {0, 1}
\* methods given to API.send: the two the post and put decorators pass, and
\* one no decorator passes
Methods == {"POST", "PUT", "BREW"}
\* capacities an LRUCache is constructed with
Capacities == {0, 1, 2}
\* middleware callables given to API.add_middleware: "tag" returns the payload
\* with a field added, "wipe" returns an empty payload, "fail" raises
Transforms == {"tag"}
PipelineTransforms == {"tag", "wipe", "fail"}

None == {}
Some(x) == {x}
Unwrap(o) == CHOOSE x \in o : TRUE
OptTTLs == {None} \cup {Some(t) : t \in TTLs}
OptResponses == {None} \cup {Some(r) : r \in Responses}
\* callers running at once on one instance, and what they pass
Threads == {1, 2}
ThreadKeys == {CacheKey(p) : p \in Paths}
ThreadTTLs == {None, Some(1)}

VARIABLES
    capacity,    \* LRUCache.capacity
    cache,       \* LRUCache.cache, least recently used first
    middleware,  \* API.middleware
    now,         \* the clock time.time() reads
    call,        \* the last call made and its arguments
    ret,         \* what the last call returned (None when it raised)
    exc,         \* the exception the last call raised, "" when none
    gbranch,     \* the branch LRUCache.get took in the last call, "" when not run
    pbranch,     \* the branch LRUCache.put took in the last call, "" when not run
    popped,      \* the entry popitem removed in the last call, None when none
    reads,       \* transport reads (rust_core_fetch) made by the last call
    writes,      \* transport writes (rust_core_send) made by the last call
    applied,     \* runs of _apply_middleware made by the last call
    trace,       \* the middleware callables the last call ran, in order
    threads,     \* callers running at once: each one's call, position and locals
    stored       \* the key and the caller of the last self.cache[key] = ... run

vars == <<capacity, cache, middleware, now, call, ret, exc, gbranch, pbranch,
          popped, reads, writes, applied, trace, threads, stored>>

\* ------------------------------------------------------- Python truthiness
\* `if ttl`, `if expiry`: None and 0 are falsy.
TruthyNum(o) == o # None /\ o # Some(0)
\* `if cached_data`: None and the empty dict are falsy.
TruthyData(o) == o # None /\ o # Some({})
\* `if path`: None and the empty string are falsy.
TruthyStr(o) == o # None /\ o # Some("")

\* ------------------------------------------------------------ OrderedDict
Keys(c) == {c[i].key : i \in 1..Len(c)}
Has(c, k) == k \in Keys(c)
Entry(c, k) == c[CHOOSE i \in 1..Len(c) : c[i].key = k]
Del(c, k) == SelectSeq(c, LAMBDA e : e.key # k)
MoveToEnd(c, k) == Append(Del(c, k), Entry(c, k))
\* (mutant) an assignment that leaves the entry of a key already held as it is
SetItemKeepsFirst(c, k, v, e) ==
    IF Has(c, k) THEN c ELSE Append(c, [key |-> k, value |-> v, expiry |-> e])

\* self.cache[key] = (value, expiry): in place for a key held, at the end otherwise
SetItem(c, k, v, e) ==
    IF Has(c, k)
    THEN [i \in 1..Len(c) |->
            IF c[i].key = k THEN [key |-> k, value |-> v, expiry |-> e] ELSE c[i]]
    ELSE Append(c, [key |-> k, value |-> v, expiry |-> e])

\* --------------------------------------------------------------- LRUCache
\* (mutant) an entry counts as expired from its expiry timestamp on
ExpiredInclusive(e, t) == TruthyNum(e) /\ t >= Unwrap(e)

\* `if expiry and time.time() > expiry`
Expired(e, t) == TruthyNum(e) /\ t > Unwrap(e)

\* (mutant) a hit that returns the value without move_to_end
LRUGetNoTouch(c, k, t) ==
    IF ~Has(c, k)
    THEN [cache |-> c, ret |-> None, branch |-> "miss"]
    ELSE IF Expired(Entry(c, k).expiry, t)
    THEN [cache |-> Del(c, k), ret |-> None, branch |-> "expired"]
    ELSE [cache |-> c, ret |-> Some(Entry(c, k).value), branch |-> "hit"]

\* (mutant) a get whose hit pushes the expiry of the entry one tick later
LRUGetSliding(c, k, t) ==
    IF ~Has(c, k)
    THEN [cache |-> c, ret |-> None, branch |-> "miss"]
    ELSE IF Expired(Entry(c, k).expiry, t)
    THEN [cache |-> Del(c, k), ret |-> None, branch |-> "expired"]
    ELSE [cache |-> MoveToEnd(SetItem(c, k, Entry(c, k).value,
                                      IF Entry(c, k).expiry = None THEN None
                                      ELSE Some(Unwrap(Entry(c, k).expiry) + 1)), k),
          ret |-> Some(Entry(c, k).value), branch |-> "hit"]

\* LRUCache.get at clock t: the cache afterwards, the value returned and the
\* branch taken.
LRUGet(c, k, t) ==
    IF ~Has(c, k)
    THEN [cache |-> c, ret |-> None, branch |-> "miss"]
    ELSE IF Expired(Entry(c, k).expiry, t)
    THEN [cache |-> Del(c, k), ret |-> None, branch |-> "expired"]
    ELSE [cache |-> MoveToEnd(c, k), ret |-> Some(Entry(c, k).value), branch |-> "hit"]

\* (mutant) a ttl left out counts as a ttl of 0 added to the clock
ExpiryOfDefaultZero(ttl, t) == Some(t + (IF ttl = None THEN 0 ELSE Unwrap(ttl)))

\* expiry = time.time() + ttl if ttl else None
ExpiryOf(ttl, t) == IF TruthyNum(ttl) THEN Some(t + Unwrap(ttl)) ELSE None

\* (mutant) a put that never pops the least recently used entry
LRUPutNoEvict(c, cap, k, v, ttl, t) ==
    [cache |-> MoveToEnd(SetItem(Del(c, k), k, v, ExpiryOf(ttl, t)), k),
     exc |-> "", branch |-> IF Has(c, k) THEN "update" ELSE "insert", popped |-> None]

\* (mutant) a put that, when full, pops an entry that has expired when there
\* is one and the least recently used entry otherwise
LRUPutEvictExpired(c, cap, k, v, ttl, t) ==
    LET dead == {i \in 1..Len(c) : Expired(c[i].expiry, t)}
        i == IF dead = {} THEN 1 ELSE CHOOSE j \in dead : \A l \in dead : j <= l IN
    IF Has(c, k)
    THEN [cache |-> MoveToEnd(SetItem(Del(c, k), k, v, ExpiryOf(ttl, t)), k),
          exc |-> "", branch |-> "update", popped |-> None]
    ELSE IF Len(c) >= cap
    THEN IF c = <<>>
         THEN [cache |-> c, exc |-> "KeyError", branch |-> "raise", popped |-> None]
         ELSE [cache |-> MoveToEnd(SetItem(Del(c, c[i].key), k, v, ExpiryOf(ttl, t)), k),
               exc |-> "", branch |-> "evict", popped |-> Some(c[i])]
    ELSE [cache |-> MoveToEnd(SetItem(c, k, v, ExpiryOf(ttl, t)), k),
          exc |-> "", branch |-> "insert", popped |-> None]

\* (mutant) a put that tests the capacity before it tests for the key
LRUPutEvictFirst(c, cap, k, v, ttl, t) ==
    IF Len(c) >= cap
    THEN IF c = <<>>
         THEN [cache |-> c, exc |-> "KeyError", branch |-> "raise", popped |-> None]
         ELSE [cache |-> MoveToEnd(SetItem(Del(Tail(c), k), k, v, ExpiryOf(ttl, t)), k),
               exc |-> "", branch |-> "evict", popped |-> Some(Head(c))]
    ELSE [cache |-> MoveToEnd(SetItem(Del(c, k), k, v, ExpiryOf(ttl, t)), k),
          exc |-> "", branch |-> IF Has(c, k) THEN "update" ELSE "insert",
          popped |-> None]

\* LRUCache.put at clock t: the cache afterwards, the exception raised and the
\* branch taken (popitem on an empty OrderedDict raises KeyError before
\* anything is stored).
LRUPut(c, cap, k, v, ttl, t) ==
    IF Has(c, k)
    THEN [cache |-> MoveToEnd(SetItem(Del(c, k), k, v, ExpiryOf(ttl, t)), k),
          exc |-> "", branch |-> "update", popped |-> None]
    ELSE IF Len(c) >= cap
    THEN IF c = <<>>
         THEN [cache |-> c, exc |-> "KeyError", branch |-> "raise", popped |-> None]
         ELSE [cache |-> MoveToEnd(SetItem(Tail(c), k, v, ExpiryOf(ttl, t)), k),
               exc |-> "", branch |-> "evict", popped |-> Some(Head(c))]
    ELSE [cache |-> MoveToEnd(SetItem(c, k, v, ExpiryOf(ttl, t)), k),
          exc |-> "", branch |-> "insert", popped |-> None]

\* -------------------------------------------------------------- middleware
\* one middleware callable applied to a payload
ApplyOne(m, data) ==
    IF m = "tag" THEN data \cup {"cached"}
    ELSE IF m = "wipe" THEN {}
    ELSE data
Raises(m) == m = "fail"

\* the loop of _apply_middleware from position i on; r holds the payload so
\* far, the callables run so far and the exception raised, "" when none
RECURSIVE ApplyFrom(_, _, _)
ApplyFrom(mw, i, r) ==
    IF i > Len(mw) THEN r
    ELSE IF Raises(mw[i])
    THEN [r EXCEPT !.trace = Append(@, mw[i]), !.exc = "MiddlewareError"]
    ELSE ApplyFrom(mw, i + 1, [r EXCEPT !.data = ApplyOne(mw[i], @),
                                        !.trace = Append(@, mw[i])])

\* (mutant) a pipeline run from the callable added last to the one added first
ApplyMiddlewareReversed(mw, data) ==
    ApplyFrom([i \in 1..Len(mw) |-> mw[Len(mw) + 1 - i]], 1,
              [data |-> data, trace |-> <<>>, exc |-> ""])

\* API._apply_middleware
ApplyMiddleware(mw, data) ==
    ApplyFrom(mw, 1, [data |-> data, trace |-> <<>>, exc |-> ""])

\* --------------------------------------------------------------------- API
\* (mutant) a fetch that stores what it read whether or not a ttl was given
APIFetchAlwaysStore(c, cap, mw, path, ttl, resp, t) ==
    LET g == LRUGet(c, CacheKey(path), t) IN
    IF TruthyData(g.ret)
    THEN [cache |-> g.cache, ret |-> g.ret, exc |-> "", gbranch |-> g.branch,
          pbranch |-> "", popped |-> None, reads |-> 0, applied |-> 0,
          trace |-> <<>>]
    ELSE IF resp = None
    THEN [cache |-> g.cache, ret |-> None, exc |-> "TransportError",
          gbranch |-> g.branch, pbranch |-> "", popped |-> None, reads |-> 1,
          applied |-> 0, trace |-> <<>>]
    ELSE LET m == ApplyMiddleware(mw, Unwrap(resp))
             p == LRUPut(g.cache, cap, CacheKey(path), m.data, ttl, t) IN
         IF m.exc # ""
         THEN [cache |-> g.cache, ret |-> None, exc |-> m.exc,
               gbranch |-> g.branch, pbranch |-> "", popped |-> None,
               reads |-> 1, applied |-> 1, trace |-> m.trace]
         ELSE [cache |-> p.cache, ret |-> IF p.exc = "" THEN Some(m.data) ELSE None,
               exc |-> p.exc, gbranch |-> g.branch, pbranch |-> p.branch,
               popped |-> p.popped, reads |-> 1, applied |-> 1, trace |-> m.trace]

\* (mutant) a fetch that stores an empty payload when the transport read fails
APIFetchStoreOnFailure(c, cap, mw, path, ttl, resp, t) ==
    LET g == LRUGet(c, CacheKey(path), t) IN
    IF TruthyData(g.ret)
    THEN [cache |-> g.cache, ret |-> g.ret, exc |-> "", gbranch |-> g.branch,
          pbranch |-> "", popped |-> None, reads |-> 0, applied |-> 0,
          trace |-> <<>>]
    ELSE IF resp = None
    THEN LET f == LRUPut(g.cache, cap, CacheKey(path), {}, ttl, t) IN
         [cache |-> f.cache, ret |-> None, exc |-> "TransportError",
          gbranch |-> g.branch, pbranch |-> "", popped |-> None, reads |-> 1,
          applied |-> 0, trace |-> <<>>]
    ELSE LET m == ApplyMiddleware(mw, Unwrap(resp))
             p == LRUPut(g.cache, cap, CacheKey(path), m.data, ttl, t) IN
         IF m.exc # ""
         THEN [cache |-> g.cache, ret |-> None, exc |-> m.exc,
               gbranch |-> g.branch, pbranch |-> "", popped |-> None,
               reads |-> 1, applied |-> 1, trace |-> m.trace]
         ELSE IF ttl # None
         THEN [cache |-> p.cache, ret |-> IF p.exc = "" THEN Some(m.data) ELSE None,
               exc |-> p.exc, gbranch |-> g.branch, pbranch |-> p.branch,
               popped |-> p.popped, reads |-> 1, applied |-> 1, trace |-> m.trace]
         ELSE [cache |-> g.cache, ret |-> Some(m.data), exc |-> "",
               gbranch |-> g.branch, pbranch |-> "", popped |-> None,
               reads |-> 1, applied |-> 1, trace |-> m.trace]

\* API.fetch(path, cache_ttl) at clock t; the transport answers resp (None
\* when the read or the decoding of its answer fails).
APIFetch(c, cap, mw, path, ttl, resp, t) ==
    LET g == LRUGet(c, CacheKey(path), t) IN
    IF TruthyData(g.ret)
    THEN [cache |-> g.cache, ret |-> g.ret, exc |-> "", gbranch |-> g.branch,
          pbranch |-> "", popped |-> None, reads |-> 0, applied |-> 0,
          trace |-> <<>>]
    ELSE IF resp = None
    THEN [cache |-> g.cache, ret |-> None, exc |-> "TransportError",
          gbranch |-> g.branch, pbranch |-> "", popped |-> None, reads |-> 1,
          applied |-> 0, trace |-> <<>>]
    ELSE LET m == ApplyMiddleware(mw, Unwrap(resp))
             p == LRUPut(g.cache, cap, CacheKey(path), m.data, ttl, t) IN
         IF m.exc # ""
         THEN [cache |-> g.cache, ret |-> None, exc |-> m.exc,
               gbranch |-> g.branch, pbranch |-> "", popped |-> None,
               reads |-> 1, applied |-> 1, trace |-> m.trace]
         ELSE IF ttl # None
         THEN [cache |-> p.cache, ret |-> IF p.exc = "" THEN Some(m.data) ELSE None,
               exc |-> p.exc, gbranch |-> g.branch, pbranch |-> p.branch,
               popped |-> p.popped, reads |-> 1, applied |-> 1, trace |-> m.trace]
         ELSE [cache |-> g.cache, ret |-> Some(m.data), exc |-> "",
               gbranch |-> g.branch, pbranch |-> "", popped |-> None,
               reads |-> 1, applied |-> 1, trace |-> m.trace]

\* (mutant) a send that writes to the transport whatever the pipeline did
APISendWritesAnyway(c, mw, path, method, data, resp) ==
    LET m == ApplyMiddleware(mw, data) IN
    IF resp = None
    THEN [cache |-> c, ret |-> None, exc |-> "TransportError", writes |-> 1,
          applied |-> 1, trace |-> m.trace]
    ELSE [cache |-> c, ret |-> resp, exc |-> "", writes |-> 1, applied |-> 1,
          trace |-> m.trace]

\* API.send(path, method, data); the transport answers resp (None on failure).
APISend(c, mw, path, method, data, resp) ==
    LET m == ApplyMiddleware(mw, data) IN
    IF m.exc # ""
    THEN [cache |-> c, ret |-> None, exc |-> m.exc, writes |-> 0,
          applied |-> 1, trace |-> m.trace]
    ELSE IF resp = None
    THEN [cache |-> c, ret |-> None, exc |-> "TransportError", writes |-> 1,
          applied |-> 1, trace |-> m.trace]
    ELSE [cache |-> c, ret |-> resp, exc |-> "", writes |-> 1, applied |-> 1,
          trace |-> m.trace]

\* API.invalidate_cache(path); path is None when the argument is omitted.
APIInvalidate(c, path) ==
    IF TruthyStr(path)
    THEN IF Has(c, CacheKey(Unwrap(path))) THEN Del(c, CacheKey(Unwrap(path))) ELSE c
    ELSE <<>>

\* ------------------------------------------------------------------- calls
NoCall == [name |-> "init", key |-> "", path |-> None, ttl |-> None,
           data |-> {}, method |-> ""]

\* a caller that has made no call yet
Idle == [pc |-> "idle", op |-> "", key |-> "", ttl |-> None, val |-> {},
         found |-> "", read |-> FALSE, ret |-> None, exc |-> "", calls |-> 0]

Init ==
    /\ threads = [t \in Threads |-> Idle]
    /\ stored = [key |-> "", by |-> 0]
    /\ capacity \in Capacities
    /\ cache = <<>>
    /\ middleware = <<>>
    /\ now = 1
    /\ call = NoCall
    /\ ret = None
    /\ exc = ""
    /\ gbranch = ""
    /\ pbranch = ""
    /\ popped = None
    /\ reads = 0
    /\ writes = 0
    /\ applied = 0
    /\ trace = <<>>

\* time passes between calls
Tick ==
    /\ now < MaxTime
    /\ now' = now + 1
    /\ call' = [NoCall EXCEPT !.name = "tick"]
    /\ ret' = None
    /\ exc' = ""
    /\ gbranch' = "" /\ pbranch' = "" /\ popped' = None
    /\ reads' = 0 /\ writes' = 0 /\ applied' = 0 /\ trace' = <<>>
    /\ UNCHANGED <<threads, stored, capacity, cache, middleware>>

\* LRUCache.get(key)
Get ==
    \E k \in DirectKeys :
        \E r \in {LRUGet(cache, k, now)} :
        /\ cache' = r.cache
        /\ ret' = r.ret
        /\ exc' = ""
        /\ gbranch' = r.branch
        /\ pbranch' = ""
        /\ popped' = None
        /\ call' = [NoCall EXCEPT !.name = "get", !.key = k]
        /\ reads' = 0 /\ writes' = 0 /\ applied' = 0 /\ trace' = <<>>
        /\ UNCHANGED <<threads, stored, capacity, middleware, now>>

\* LRUCache.put(key, value, ttl)
Put ==
    \E k \in DirectKeys, v \in Responses, ttl \in OptTTLs :
        \E r \in {LRUPut(cache, capacity, k, v, ttl, now)} :
        /\ cache' = r.cache
        /\ ret' = None
        /\ exc' = r.exc
        /\ gbranch' = ""
        /\ pbranch' = r.branch
        /\ popped' = r.popped
        /\ call' = [NoCall EXCEPT !.name = "put", !.key = k, !.ttl = ttl, !.data = v]
        /\ reads' = 0 /\ writes' = 0 /\ applied' = 0 /\ trace' = <<>>
        /\ UNCHANGED <<threads, stored, capacity, middleware, now>>

\* API.fetch(path, cache_ttl)
Fetch ==
    \E path \in Paths, ttl \in OptTTLs, resp \in OptResponses :
        \E r \in {APIFetch(cache, capacity, middleware, path, ttl, resp, now)} :
        /\ cache' = r.cache
        /\ ret' = r.ret
        /\ exc' = r.exc
        /\ gbranch' = r.gbranch
        /\ pbranch' = r.pbranch
        /\ popped' = r.popped
        /\ reads' = r.reads
        /\ applied' = r.applied
        /\ trace' = r.trace
        /\ writes' = 0
        /\ call' = [NoCall EXCEPT !.name = "fetch", !.key = CacheKey(path),
                                  !.path = Some(path), !.ttl = ttl]
        /\ UNCHANGED <<threads, stored, capacity, middleware, now>>

\* API.send(path, method, data)
Send ==
    \E path \in Paths, method \in Methods, data \in Responses, resp \in OptResponses :
        \E r \in {APISend(cache, middleware, path, method, data, resp)} :
        /\ cache' = r.cache
        /\ ret' = r.ret
        /\ exc' = r.exc
        /\ writes' = r.writes
        /\ applied' = r.applied
        /\ trace' = r.trace
        /\ reads' = 0
        /\ gbranch' = "" /\ pbranch' = "" /\ popped' = None
        /\ call' = [NoCall EXCEPT !.name = "send", !.method = method]
        /\ UNCHANGED <<threads, stored, capacity, middleware, now>>

\* API.invalidate_cache(path)
InvalidateCache ==
    \E path \in {None} \cup {Some(p) : p \in Paths} :
        /\ cache' = APIInvalidate(cache, path)
        /\ call' = [NoCall EXCEPT !.name = "invalidate", !.path = path,
                        !.key = IF path = None THEN "" ELSE CacheKey(Unwrap(path))]
        /\ ret' = None
        /\ exc' = ""
        /\ gbranch' = "" /\ pbranch' = "" /\ popped' = None
        /\ reads' = 0 /\ writes' = 0 /\ applied' = 0 /\ trace' = <<>>
        /\ UNCHANGED <<threads, stored, capacity, middleware, now>>

\* API.add_middleware(middleware)
AddMiddleware ==
    \E m \in Transforms :
        /\ Len(middleware) < MaxMiddleware
        /\ middleware' = Append(middleware, m)
        /\ call' = [NoCall EXCEPT !.name = "add_middleware"]
        /\ ret' = None
        /\ exc' = ""
        /\ gbranch' = "" /\ pbranch' = "" /\ popped' = None
        /\ reads' = 0 /\ writes' = 0 /\ applied' = 0 /\ trace' = <<>>
        /\ UNCHANGED <<threads, stored, capacity, cache, now>>

\* API.add_middleware(middleware), any callable, up to a longer pipeline
AddAnyMiddleware ==
    \E m \in PipelineTransforms :
        /\ Len(middleware) < MaxPipeline
        /\ middleware' = Append(middleware, m)
        /\ call' = [NoCall EXCEPT !.name = "add_middleware"]
        /\ ret' = None
        /\ exc' = ""
        /\ gbranch' = "" /\ pbranch' = "" /\ popped' = None
        /\ reads' = 0 /\ writes' = 0 /\ applied' = 0 /\ trace' = <<>>
        /\ UNCHANGED <<threads, stored, capacity, cache, now>>

\* API._apply_middleware(data)
Apply ==
    \E data \in Responses :
        \E r \in {ApplyMiddleware(middleware, data)} :
        /\ ret' = IF r.exc = "" THEN Some(r.data) ELSE None
        /\ exc' = r.exc
        /\ trace' = r.trace
        /\ applied' = 1
        /\ call' = [NoCall EXCEPT !.name = "apply", !.data = data]
        /\ gbranch' = "" /\ pbranch' = "" /\ popped' = None
        /\ reads' = 0 /\ writes' = 0
        /\ UNCHANGED <<threads, stored, capacity, cache, middleware, now>>

\* ------------------------------------------------------- concurrent callers
\* Calls made by callers running at once. Nothing in core.py takes a lock, so
\* a caller can be overtaken between any two operations on the OrderedDict;
\* each operation on it (in, [], del, len, popitem, move_to_end, []=, clear)
\* is one step.
seqobs == <<capacity, middleware, now, call, ret, exc, gbranch, pbranch, popped,
            reads, writes, applied, trace>>

\* the call ends by raising the KeyError of the OrderedDict
Fail(r) == [r EXCEPT !.pc = "idle", !.exc = "KeyError", !.ret = None]
\* LRUCache.get returns: a plain get ends, a fetch goes on
EndGet(r) ==
    IF r.op = "fetch" /\ ~TruthyData(r.ret)
    THEN [r EXCEPT !.pc = "read"]
    ELSE [r EXCEPT !.pc = "idle"]

\* calls made so far by all callers
Calls == threads[1].calls + threads[2].calls

\* a caller enters get, put, fetch or invalidate_cache
ThreadBegin ==
    \E t \in Threads :
        /\ threads[t].pc = "idle"
        /\ Calls < MaxCalls
        /\ \E r \in
              {[Idle EXCEPT !.op = "get", !.pc = "g1", !.key = k] : k \in ThreadKeys}
              \cup {[Idle EXCEPT !.op = "put", !.pc = "p1", !.key = k, !.val = v] :
                        k \in ThreadKeys, v \in Responses}
              \cup {[Idle EXCEPT !.op = "fetch", !.pc = "g1", !.key = CacheKey(p),
                                 !.ttl = ttl] : p \in Paths, ttl \in ThreadTTLs}
              \cup {[Idle EXCEPT !.op = "invalidate",
                                 !.pc = IF TruthyStr(p) THEN "i1" ELSE "iclear",
                                 !.key = IF p = None THEN "" ELSE CacheKey(Unwrap(p))] :
                        p \in {None} \cup {Some(q) : q \in Paths}} :
              threads' = [threads EXCEPT ![t] = [r EXCEPT !.calls = threads[t].calls + 1]]
        /\ UNCHANGED <<cache, stored>>
        /\ UNCHANGED seqobs

\* one operation of LRUCache.get on the OrderedDict
ThreadGet ==
    \E t \in Threads :
        LET r == threads[t]
            k == r.key IN
        /\ r.pc \in {"g1", "g2", "gdel", "gmove"}
        /\ \E n \in
              {IF r.pc = "g1"
               THEN IF Has(cache, k)
                    THEN [c |-> cache, r |-> [r EXCEPT !.pc = "g2"]]
                    ELSE [c |-> cache, r |-> EndGet([r EXCEPT !.found = "miss"])]
               ELSE IF ~Has(cache, k)
               THEN [c |-> cache, r |-> Fail(r)]
               ELSE IF r.pc = "g2"
               THEN [c |-> cache,
                     r |-> [r EXCEPT !.ret = Some(Entry(cache, k).value),
                                     !.pc = IF Expired(Entry(cache, k).expiry, now)
                                            THEN "gdel" ELSE "gmove",
                                     !.found = IF Expired(Entry(cache, k).expiry, now)
                                               THEN "expired" ELSE "hit"]]
               ELSE IF r.pc = "gdel"
               THEN [c |-> Del(cache, k), r |-> EndGet([r EXCEPT !.ret = None])]
               ELSE [c |-> MoveToEnd(cache, k), r |-> EndGet(r)]} :
              /\ cache' = n.c
              /\ threads' = [threads EXCEPT ![t] = n.r]
        /\ UNCHANGED stored
        /\ UNCHANGED seqobs

\* the transport read of API.fetch, the decoding and the middleware
ThreadRead ==
    \E t \in Threads, resp \in OptResponses :
        LET r == threads[t]
            m == ApplyMiddleware(middleware, Unwrap(resp)) IN
        /\ r.pc = "read"
        /\ threads' = [threads EXCEPT ![t] =
              IF resp = None
              THEN [r EXCEPT !.pc = "idle", !.read = TRUE, !.exc = "TransportError"]
              ELSE IF m.exc # ""
              THEN [r EXCEPT !.pc = "idle", !.read = TRUE, !.exc = m.exc]
              ELSE IF r.ttl # None
              THEN [r EXCEPT !.pc = "p1", !.read = TRUE, !.val = m.data]
              ELSE [r EXCEPT !.pc = "idle", !.read = TRUE, !.val = m.data,
                             !.ret = Some(m.data)]]
        /\ UNCHANGED <<cache, stored>>
        /\ UNCHANGED seqobs

\* one operation of LRUCache.put on the OrderedDict
ThreadPut ==
    \E t \in Threads :
        LET r == threads[t]
            k == r.key IN
        /\ r.pc \in {"p1", "pdel", "p2", "ppop", "pset", "pmove"}
        /\ \E n \in
              {IF r.pc = "p1"
               THEN [c |-> cache, by |-> stored,
                     r |-> [r EXCEPT !.pc = IF Has(cache, k) THEN "pdel" ELSE "p2"]]
               ELSE IF r.pc = "pdel"
               THEN IF Has(cache, k)
                    THEN [c |-> Del(cache, k), by |-> stored, r |-> [r EXCEPT !.pc = "pset"]]
                    ELSE [c |-> cache, by |-> stored, r |-> Fail(r)]
               ELSE IF r.pc = "p2"
               THEN [c |-> cache, by |-> stored,
                     r |-> [r EXCEPT !.pc = IF Len(cache) >= capacity
                                            THEN "ppop" ELSE "pset"]]
               ELSE IF r.pc = "ppop"
               THEN IF cache # <<>>
                    THEN [c |-> Tail(cache), by |-> stored, r |-> [r EXCEPT !.pc = "pset"]]
                    ELSE [c |-> cache, by |-> stored, r |-> Fail(r)]
               ELSE IF r.pc = "pset"
               THEN [c |-> SetItem(cache, k, r.val, ExpiryOf(r.ttl, now)),
                     by |-> [key |-> k, by |-> t],
                     r |-> [r EXCEPT !.pc = "pmove"]]
               ELSE IF Has(cache, k)
               THEN [c |-> MoveToEnd(cache, k), by |-> stored,
                     r |-> [r EXCEPT !.pc = "idle",
                                     !.ret = IF r.op = "fetch" THEN Some(r.val) ELSE None]]
               ELSE [c |-> cache, by |-> stored, r |-> Fail(r)]} :
              /\ cache' = n.c
              /\ stored' = n.by
              /\ threads' = [threads EXCEPT ![t] = n.r]
        /\ UNCHANGED seqobs

\* one operation of API.invalidate_cache on the OrderedDict
ThreadInvalidate ==
    \E t \in Threads :
        LET r == threads[t]
            k == r.key IN
        /\ r.pc \in {"i1", "idel", "iclear"}
        /\ \E n \in
              {IF r.pc = "i1"
               THEN [c |-> cache,
                     r |-> [r EXCEPT !.pc = IF Has(cache, k) THEN "idel" ELSE "idle"]]
               ELSE IF r.pc = "idel"
               THEN IF Has(cache, k)
                    THEN [c |-> Del(cache, k), r |-> [r EXCEPT !.pc = "idle"]]
                    ELSE [c |-> cache, r |-> Fail(r)]
               ELSE [c |-> <<>>, r |-> [r EXCEPT !.pc = "idle"]]} :
              /\ cache' = n.c
              /\ threads' = [threads EXCEPT ![t] = n.r]
        /\ UNCHANGED stored
        /\ UNCHANGED seqobs

\* ---------------------------------------------------------- specifications
\* the cache used directly and through an API with no middleware, the calls
\* made one after another
Next == Tick \/ Get \/ Put \/ Fetch \/ Send \/ InvalidateCache

Spec == Init /\ [][Next]_vars

\* an LRUCache used on its own
NextCache == Tick \/ Get \/ Put

SpecCache == Init /\ [][NextCache]_vars

\* an API used through its own methods only
NextAPI == Tick \/ Fetch \/ Send \/ InvalidateCache \/ AddMiddleware

SpecAPI == Init /\ [][NextAPI]_vars

\* an API with a pipeline of any callables, at one clock time
NextPipeline == AddAnyMiddleware \/ Apply \/ Fetch \/ Send

SpecPipeline == Init /\ [][NextPipeline]_vars

\* callers running at once on one instance, at one clock time
NextThreads == ThreadBegin \/ ThreadGet \/ ThreadRead \/ ThreadPut \/ ThreadInvalidate

SpecThreads == Init /\ [][NextThreads]_vars

\* ------------------------------------------------------------------ claims
Last(c) == c[Len(c)]
Front(c) == SubSeq(c, 1, Len(c) - 1)
\* an entry both readings of expiry agree is live at clock t
Live(e, t) == e = None \/ t < Unwrap(e)

\* C1: with a capacity of at least 1, the cache never holds more entries than
\* its capacity, whatever sequence of put, get, fetch, send and
\* invalidate_cache calls is made and however the clock advances.
CapacityInvariant == capacity >= 1 => Len(cache) <= capacity

\* a put, made by fetch, that evicted an entry of a full cache of capacity 2
CapacityWitness ==
    /\ capacity = 2
    /\ call.name = "fetch"
    /\ pbranch = "evict"
    /\ Len(cache) = capacity

\* C2: a put and a get that hits move their key to the most recently used
\* end and keep every other entry in its order; a put of a key not held into
\* a full cache removes exactly the least recently used entry (the one whose
\* last put or hit is the oldest, which the order keeps first); a get that
\* does not hit leaves the other entries as they are.
RecencyStep ==
    /\ (call'.name = "put" /\ exc' = "") =>
          LET k == call'.key
              rest == IF Has(cache, k) \/ Len(cache) < capacity
                      THEN Del(cache, k) ELSE Tail(cache)
          IN /\ cache' # <<>>
             /\ Last(cache').key = k
             /\ Front(cache') = rest
    /\ (call'.name = "get" /\ ret' # None) =>
          /\ Has(cache, call'.key)
          /\ cache' = Append(Del(cache, call'.key), Entry(cache, call'.key))
    /\ (call'.name = "get" /\ ret' = None) =>
          cache' = Del(cache, call'.key)

RecencyOrder == [][RecencyStep]_vars

\* capacity 2, holding "GET:" and "GET:/a" with "GET:" the more recently
\* used: the put of "GET:/b" evicted "GET:/a" and left exactly the other two
RecencyWitness ==
    /\ capacity = 2
    /\ call.name = "put"
    /\ call.key = CacheKey("/b")
    /\ pbranch = "evict"
    /\ Len(cache) = 2
    /\ cache[1].key = CacheKey("")
    /\ cache[2].key = CacheKey("/b")

\* C3: a fetch whose key is held and live returns the stored value without a
\* transport read and without running the middleware, whatever the stored
\* payload is, the empty mapping included.
FetchHitStep ==
    (call'.name = "fetch" /\ Has(cache, call'.key)
        /\ Live(Entry(cache, call'.key).expiry, now)) =>
       /\ ret' = Some(Entry(cache, call'.key).value)
       /\ reads' = 0
       /\ applied' = 0

FetchHitServedFromCache == [][FetchHitStep]_vars

\* C4: a fetch with a ttl that misses (key not held, or held and expired),
\* and whose read and store succeed, reads the transport once, runs the
\* middleware once, stores the transformed payload under its key as the most
\* recently used entry with expiry = now + ttl, and returns that payload.
FetchMissStep ==
    (call'.name = "fetch" /\ call'.ttl # None /\ exc' = ""
        /\ gbranch' \in {"miss", "expired"}) =>
       /\ reads' = 1
       /\ applied' = 1
       /\ Has(cache', call'.key)
       /\ Last(cache').key = call'.key
       /\ Last(cache').expiry = Some(now' + Unwrap(call'.ttl))
       /\ ret' = Some(Last(cache').value)
       /\ (middleware # <<>> => "cached" \in Last(cache').value)

FetchMissStoresWithTtl == [][FetchMissStep]_vars

\* C5: an entry stored with a ttl of 0, by put or by a fetch that missed, is
\* absent for a get of its key at every strictly later time.
TtlZeroExpires ==
    (call.name \in {"put", "fetch"} /\ call.ttl = Some(0)
        /\ pbranch \in {"insert", "update", "evict"}) =>
       \A t \in (now + 1)..(MaxTime + 1) : LRUGet(cache, call.key, t).ret = None

\* C6 as stated: a get of a key held with expiry e at time t returns absent
\* and removes the entry when e <= t (t = e included), and returns the value
\* when t < e.
LazyExpiryInclusiveStep ==
    (call'.name = "get" /\ Has(cache, call'.key)
        /\ Entry(cache, call'.key).expiry # None) =>
       IF Unwrap(Entry(cache, call'.key).expiry) <= now
       THEN ret' = None /\ ~Has(cache', call'.key)
       ELSE ret' = Some(Entry(cache, call'.key).value)

LazyExpiryInclusive == [][LazyExpiryInclusiveStep]_vars

\* C6 as amended: a get of a key held with expiry e at time t returns absent
\* and removes the entry when e < t, and returns the value and keeps the
\* entry when t <= e (t = e included).
LazyExpiryStrictStep ==
    (call'.name = "get" /\ Has(cache, call'.key)
        /\ Entry(cache, call'.key).expiry # None) =>
       IF Unwrap(Entry(cache, call'.key).expiry) < now
       THEN ret' = None /\ ~Has(cache', call'.key)
       ELSE /\ ret' = Some(Entry(cache, call'.key).value)
            /\ Has(cache', call'.key)
            /\ Entry(cache', call'.key) = Entry(cache, call'.key)

LazyExpiryStrict == [][LazyExpiryStrictStep]_vars

\* a get made exactly at the expiry timestamp of its entry returned the value
LazyExpiryBoundaryWitness ==
    /\ call.name = "get"
    /\ gbranch = "hit"
    /\ ret # None
    /\ Has(cache, call.key)
    /\ Entry(cache, call.key).expiry = Some(now)

\* C7: a put with no ttl stores an entry with no expiry; a get of an entry
\* with no expiry returns its value at any time and keeps it; and no step
\* other than a put or a fetch of its own key changes such an entry while
\* its key stays in the cache.
NeverExpiresStep ==
    /\ (call'.name = "put" /\ call'.ttl = None /\ exc' = "") =>
          /\ Has(cache', call'.key)
          /\ Entry(cache', call'.key).expiry = None
          /\ Entry(cache', call'.key).value = call'.data
    /\ (call'.name = "get" /\ Has(cache, call'.key)
          /\ Entry(cache, call'.key).expiry = None) =>
          /\ ret' = Some(Entry(cache, call'.key).value)
          /\ Has(cache', call'.key)
          /\ Entry(cache', call'.key) = Entry(cache, call'.key)
    /\ \A k \in Keys(cache) \cap Keys(cache') :
          (Entry(cache, k).expiry = None
              /\ ~(call'.name \in {"put", "fetch"} /\ call'.key = k)) =>
             Entry(cache', k) = Entry(cache, k)

NoTtlNeverExpires == [][NeverExpiresStep]_vars

\* at the last instant of the clock a get returned the value of an entry
\* that has no expiry
NeverExpiresWitness ==
    /\ now = MaxTime
    /\ call.name = "get"
    /\ gbranch = "hit"
    /\ ret # None
    /\ Has(cache, call.key)
    /\ Entry(cache, call.key).expiry = None

\* C8: a put of a key already held by a full cache evicts nothing: the keys
\* are the same, every other entry keeps its value, expiry and order, the
\* key maps to the new value with an expiry computed from the new ttl (none
\* for no ttl, now + ttl for a positive ttl) and is most recently used.
UpdateStep ==
    (call'.name = "put" /\ Has(cache, call'.key) /\ Len(cache) = capacity) =>
       /\ exc' = ""
       /\ Keys(cache') = Keys(cache)
       /\ Len(cache') = Len(cache)
       /\ Front(cache') = Del(cache, call'.key)
       /\ Last(cache').key = call'.key
       /\ Last(cache').value = call'.data
       /\ (call'.ttl = None => Last(cache').expiry = None)
       /\ (call'.ttl # None /\ call'.ttl # Some(0) =>
              Last(cache').expiry = Some(now + Unwrap(call'.ttl)))

UpdateIsNotInsertion == [][UpdateStep]_vars

\* a put that replaced the entry of its key in a full cache of capacity 2
UpdateWitness ==
    /\ capacity = 2
    /\ Len(cache) = 2
    /\ call.name = "put"
    /\ pbranch = "update"

\* C9: a fetch with no ttl that reads the transport performs no put; when
\* its key was not held before the call, the cache is unchanged, the key is
\* not held after it, and a following get of the key returns absent.
UncachedFetchStep ==
    (call'.name = "fetch" /\ call'.ttl = None /\ reads' = 1) =>
       /\ pbranch' = ""
       /\ ~Has(cache, call'.key) =>
             /\ cache' = cache
             /\ ~Has(cache', call'.key)
             /\ LRUGet(cache', call'.key, now').ret = None

UncachedFetchNotStored == [][UncachedFetchStep]_vars

\* a fetch with no ttl read the transport, returned a payload, and its key
\* is not in the cache
UncachedFetchWitness ==
    /\ call.name = "fetch"
    /\ call.ttl = None
    /\ reads = 1
    /\ ret # None
    /\ ~Has(cache, call.key)

\* C10: invalidate_cache with a path given, the empty string included,
\* removes the entry of "GET:" + path when held and leaves every other entry
\* and the order of the others as they were.
InvalidateStep ==
    (call'.name = "invalidate" /\ call'.path # None) =>
       cache' = Del(cache, CacheKey(Unwrap(call'.path)))

InvalidateScoped == [][InvalidateStep]_vars

\* C12: no cache with a capacity below 1 exists: construction with such a
\* capacity fails, so every constructed cache has a capacity of at least 1.
CapacityValidated == capacity >= 1

\* C13: send leaves the cache as it was, whether it succeeds or fails, and a
\* live entry held under "GET:" + path is what the next fetch(path) returns.
SendFrameStep == call'.name = "send" => cache' = cache

SendFrame == [][SendFrameStep]_vars

SendKeepsServingStep ==
    call'.name = "send" =>
       /\ cache' = cache
       /\ \A p \in Paths :
             (Has(cache, CacheKey(p)) /\ Live(Entry(cache, CacheKey(p)).expiry, now)) =>
                \A ttl \in OptTTLs, resp \in OptResponses :
                    LET f == APIFetch(cache', capacity, middleware, p, ttl, resp, now') IN
                    f.reads = 0 /\ f.ret = Some(Entry(cache, CacheKey(p)).value)

SendKeepsServing == [][SendKeepsServingStep]_vars

\* C16 as stated: when the transport read of a fetch fails, the cache after
\* the call is the cache before it: same keys, values, expiries and order.
FetchFailureNoMutationStep ==
    (call'.name = "fetch" /\ exc' = "TransportError") => cache' = cache

FetchFailureNoMutation == [][FetchFailureNoMutationStep]_vars

\* C16 as amended: when the transport read of a fetch fails, nothing is
\* stored and nothing is evicted; every entry under another key keeps its
\* value, its expiry and its place among the others; the entry under the
\* key of the fetch is either kept with its value and expiry or removed
\* by the lookup because its expiry had passed.
FetchFailureNoStoreStep ==
    (call'.name = "fetch" /\ exc' = "TransportError") =>
       /\ pbranch' = ""
       /\ popped' = None
       /\ Del(cache', call'.key) = Del(cache, call'.key)
       /\ Has(cache', call'.key) =>
             /\ Has(cache, call'.key)
             /\ Entry(cache', call'.key) = Entry(cache, call'.key)
       /\ (Has(cache, call'.key) /\ ~Has(cache', call'.key)) =>
             /\ Entry(cache, call'.key).expiry # None
             /\ Unwrap(Entry(cache, call'.key).expiry) < now

FetchFailureNoStore == [][FetchFailureNoStoreStep]_vars

\* a fetch whose lookup removed an expired entry and whose transport read
\* then failed
FetchFailureWitness ==
    /\ call.name = "fetch"
    /\ exc = "TransportError"
    /\ gbranch = "expired"
    /\ ~Has(cache, call.key)
    /\ cache # <<>>

\* C17: a send with a method outside the supported ones is rejected with a
\* configuration error and makes no transport write.
SupportedMethods == {"POST", "PUT"}

InvalidMethodStep ==
    (call'.name = "send" /\ call'.method \notin SupportedMethods) =>
       writes' = 0 /\ exc' = "ConfigurationError"

InvalidMethodRejected == [][InvalidMethodStep]_vars

\* C19: an entry leaves the cache only through a lookup of its own key after
\* its expiry, a store under its own key, the eviction of the least recently
\* used entry, or invalidate_cache; and a put of a new key into a full cache
\* pops the least recently used entry whatever the expiries held.
Entries(c) == {c[i] : i \in 1..Len(c)}

LazyExpiryOnlyStep ==
    /\ \A e \in Entries(cache) \ Entries(cache') :
          \/ /\ call'.name \in {"get", "fetch"}
             /\ e.key = call'.key
             /\ gbranch' = "expired"
             /\ e.expiry # None /\ Unwrap(e.expiry) < now
          \/ /\ call'.name \in {"put", "fetch"}
             /\ e.key = call'.key
             /\ pbranch' \in {"update", "insert", "evict"}
          \/ /\ call'.name \in {"put", "fetch"}
             /\ pbranch' = "evict"
             /\ e = Head(Del(cache, call'.key))
             /\ popped' = Some(e)
          \/ call'.name = "invalidate"
    /\ (call'.name = "put" /\ ~Has(cache, call'.key) /\ cache # <<>>
           /\ Len(cache) >= capacity) =>
          /\ popped' = Some(Head(cache))
          /\ Front(cache') = Tail(cache)
          /\ Last(cache').key = call'.key

LazyExpiryOnly == [][LazyExpiryOnlyStep]_vars

\* a put of a new key popped a least recently used entry that was live
\* while an entry whose expiry had passed stayed in the cache
LiveEvictedWitness ==
    /\ call.name = "put"
    /\ pbranch = "evict"
    /\ popped # None
    /\ Live(Unwrap(popped).expiry, now)
    /\ \E e \in Entries(cache) :
          e.key # call.key /\ e.expiry # None /\ Unwrap(e.expiry) < now

\* C20: a get that hits, and a fetch served from the cache, leave the value
\* and the expiry of the entry as they were, whatever ttl the fetch was
\* given; only the place of the entry in the recency order changes.
HitKeepsExpiryStep ==
    (/\ call'.name \in {"get", "fetch"}
     /\ gbranch' = "hit"
     /\ call'.name = "fetch" => reads' = 0) =>
       /\ Has(cache, call'.key)
       /\ Has(cache', call'.key)
       /\ Entry(cache', call'.key) = Entry(cache, call'.key)
       /\ Del(cache', call'.key) = Del(cache, call'.key)
       /\ Last(cache').key = call'.key

HitKeepsExpiry == [][HitKeepsExpiryStep]_vars

\* a fetch given a ttl of 1 was served an entry that expires at the present
\* clock time
HitKeepsExpiryWitness ==
    /\ call.name = "fetch"
    /\ call.ttl = Some(1)
    /\ gbranch = "hit"
    /\ reads = 0
    /\ Has(cache, call.key)
    /\ Entry(cache, call.key).expiry = Some(now)

\* C14: with callables T1, ..., Tn added in this order, a run of the pipeline
\* on x that raises nothing runs each callable once, in the order added, and
\* returns Tn(...T2(T1(x))...); with no callable added it returns x.
RECURSIVE Compose(_, _)
Compose(mw, x) ==
    IF mw = <<>> THEN x ELSE ApplyOne(Last(mw), Compose(Front(mw), x))

PipelineOrderStep ==
    /\ (call'.name = "apply" /\ exc' = "") =>
          /\ trace' = middleware
          /\ ret' = Some(Compose(middleware, call'.data))
          /\ middleware = <<>> => ret' = Some(call'.data)
    /\ (call'.name \in {"fetch", "send"} /\ applied' = 1
           /\ exc' # "MiddlewareError") =>
          trace' = middleware

PipelineOrder == [][PipelineOrderStep]_vars

\* a pipeline of two callables whose order matters ran on a payload
PipelineOrderWitness ==
    /\ call.name = "apply"
    /\ exc = ""
    /\ Len(middleware) >= 2
    /\ ret = Some(Compose(middleware, call.data))
    /\ ret # Some(Compose(<<middleware[2], middleware[1]>>, call.data))

\* C15: when a callable of the pipeline raises, no callable after it runs,
\* the exception reaches the caller, a send makes no transport write, and a
\* fetch performs no put, so that no entry is stored under its key.
FirstRaising(mw) ==
    IF \E i \in 1..Len(mw) : Raises(mw[i])
    THEN CHOOSE i \in 1..Len(mw) : Raises(mw[i]) /\ \A j \in 1..(i - 1) : ~Raises(mw[j])
    ELSE 0

PipelineFailureStep ==
    (call'.name \in {"apply", "fetch", "send"} /\ applied' = 1
        /\ FirstRaising(middleware) > 0) =>
       /\ exc' = "MiddlewareError"
       /\ ret' = None
       /\ trace' = SubSeq(middleware, 1, FirstRaising(middleware))
       /\ writes' = 0
       /\ pbranch' = "" /\ popped' = None
       /\ Entries(cache') \subseteq Entries(cache)
       /\ ~Has(cache, call'.key) => ~Has(cache', call'.key)

PipelineFailure == [][PipelineFailureStep]_vars

\* a fetch with a ttl read the transport, its first callable raised while a
\* second one was waiting, and its key is not in the cache
PipelineFailureWitness ==
    /\ call.name = "fetch"
    /\ call.ttl # None
    /\ reads = 1
    /\ exc = "MiddlewareError"
    /\ Len(middleware) >= 2
    /\ Len(trace) < Len(middleware)
    /\ ~Has(cache, call.key)

\* a send whose pipeline raised
SendFailureWitness ==
    /\ call.name = "send"
    /\ exc = "MiddlewareError"
    /\ writes = 0

\* C11: under every interleaving of callers running get, put, fetch and
\* invalidate_cache on one instance, the cache never holds more entries than
\* its capacity, and a caller that found a key present still finds it when
\* it goes on to read or delete it, so that no call fails for that reason.
NoOverflowInterleaved == Len(cache) <= capacity

FoundKeyStillHeld ==
    \A t \in Threads :
        threads[t].pc \in {"g2", "gdel", "gmove", "pdel", "idel"} =>
            Has(cache, threads[t].key)

NoLostKeyFailure ==
    \A t \in Threads :
        (capacity >= 1 /\ threads[t].op \in {"get", "invalidate"}) =>
            threads[t].exc # "KeyError"

CacheOperationsAtomic ==
    /\ NoOverflowInterleaved
    /\ FoundKeyStillHeld
    /\ NoLostKeyFailure

\* C18: two fetches with a ttl of one path that have both read the transport
\* and both returned leave exactly one entry under "GET:" + path, and its
\* value is the payload of the caller whose assignment to the key ran last;
\* both can have missed, each reading the transport, with nothing making
\* the second wait for the first.
FetchedBoth(k) ==
    \A t \in Threads :
        /\ threads[t].pc = "idle"
        /\ threads[t].op = "fetch"
        /\ threads[t].key = k
        /\ threads[t].ttl # None
        /\ threads[t].read
        /\ threads[t].exc = ""

NoSingleFlight ==
    \A k \in ThreadKeys :
        FetchedBoth(k) =>
           /\ Cardinality({i \in 1..Len(cache) : cache[i].key = k}) = 1
           /\ stored.key = k
           /\ Entry(cache, k).value = threads[stored.by].val
           /\ threads[stored.by].ret = Some(Entry(cache, k).value)

\* two fetches of one path both found the key absent, both read the
\* transport, were answered different payloads, and both returned
NoSingleFlightWitness ==
    \E k \in ThreadKeys :
        /\ FetchedBoth(k)
        /\ \A t \in Threads : threads[t].found = "miss"
        /\ threads[1].val # threads[2].val
        /\ Has(cache, k)

====
